---- MODULE Spec2Model ----
(***************************************************************************)
(* Model of app.py: a Streamlit page that fetches day-ahead prices for the *)
(* selected bidding zones through the cached function get_entsoe_data,     *)
(* normalizes them onto the expected time grid of the day and renders a    *)
(* line chart, an optional heatmap and an optional data table.             *)
(*                                                                         *)
(* Timestamps are absolute instants, counted in quarter-hours since the    *)
(* local midnight (Europe/Brussels) that starts the selected day.  A cell  *)
(* value is <<v>> for the number v and <<>> for a missing value (NaN).     *)
(***************************************************************************)
EXTENDS Integers, Sequences, FiniteSets, TLC

(* ------------------------------ bounds --------------------------------- *)
\* longest region selection explored
MaxSel == 2
\* page runs of one server process explored in the cache specification
MaxRuns == 3
\* clock ticks (of half a freshness window each) explored
MaxTicks == 3

(* ------------------------- program constants --------------------------- *)
TTL == 3600
RESOLUTION_CHANGE_DATE == <<2025, 10, 1>>
BRUSSELS == <<"Europe/Brussels">>
all_countries ==
    << "CZ", "PL", "DE_LU", "FR", "SK", "DK_1", "SE_4", "ES", "AT", "IT_NORD",
       "NO_3", "HU", "HR", "SI", "BE", "NL", "PT", "IE_SEM", "LT", "LV", "EE",
       "GR", "FI", "BG", "RO", "CH", "LU" >>
colorscale_options ==
    << "Default", "Picnic", "balance", "Temps", "Fall", "Tropic", "Portland",
       "Earth", "PRGn", "RdBu", "Viridis" >>
diverging_scales_list ==
    << "Default", "Picnic", "PRGn", "RdBu", "balance", "Temps" >>

(* ------------------------------ helpers -------------------------------- *)
Range(s) == {s[k] : k \in DOMAIN s}

NaN == <<>>
None == <<>>
Num(v) == <<v>>
IsNum(x) == Len(x) = 1

SetMin(S) == CHOOSE x \in S : \A y \in S : x <= y
SetMax(S) == CHOOSE x \in S : \A y \in S : x >= y
Abs(x) == IF x < 0 THEN -x ELSE x
Max2(a, b) == IF a >= b THEN a ELSE b

\* dates are <<year, month, day>>; a >= b as datetime.date compares them
DateGE(a, b) ==
    \/ a[1] > b[1]
    \/ a[1] = b[1] /\ a[2] > b[2]
    \/ a[1] = b[1] /\ a[2] = b[2] /\ a[3] >= b[3]

\* Europe/Brussels changes its UTC offset on these days of the modelled range
SpringForwardDays == {<<2025, 3, 30>>, <<2026, 3, 29>>}
FallBackDays == {<<2025, 10, 26>>, <<2026, 10, 25>>}

\* hours between pd.Timestamp(day, tz) and pd.Timestamp(day + 1 day, tz)
HoursInDay(day) ==
    IF day \in SpringForwardDays THEN 23
    ELSE IF day \in FallBackDays THEN 25
    ELSE 24

\* end_ts - start_ts in quarter-hours
end_ts(day) == 4 * HoursInDay(day)

\* quarter-hours per step of the frequency chosen at line 106
FreqStep(resolution_code_entsoe) ==
    IF resolution_code_entsoe = "PT60M" THEN 4 ELSE 1

\* pd.date_range(start_ts, end_ts, freq, inclusive='left', tz=Brussels)
expected_index(day, resolution_code_entsoe) ==
    [k \in 1..(end_ts(day) \div FreqStep(resolution_code_entsoe))
        |-> (k - 1) * FreqStep(resolution_code_entsoe)]

(* ----------------------- pandas objects -------------------------------- *)
\* pd.DataFrame(): no rows, no columns, no time zone
EmptyFrame == [tz |-> <<>>, index |-> <<>>, columns |-> <<>>, values |-> <<>>]

\* DataFrame.empty: some axis has length 0
IsEmpty(df) == Len(df.index) = 0 \/ Len(df.columns) = 0

EmptySeries == [tz |-> <<>>, index |-> <<>>, values |-> <<>>]

\* s.reindex(index): the value of s at each label of index, NaN where s has none
AlignSeries(s, index) ==
    [t \in Range(index) |-> IF t \in DOMAIN s.values THEN s.values[t] ELSE NaN]

\* df[country] = s for a country that is no column yet: a frame without rows
\* takes the index of s, any other frame aligns s to its own index
SetColumn(df, country, s) ==
    IF Len(df.index) = 0
    THEN [tz |-> s.tz, index |-> s.index,
          columns |-> Append(df.columns, country),
          values |-> [c \in Range(df.columns) \cup {country} |->
                        IF c = country THEN s.values
                        ELSE [t \in Range(s.index) |-> NaN]]]
    ELSE [df EXCEPT !.columns = Append(df.columns, country),
                    !.values = [c \in Range(df.columns) \cup {country} |->
                                  IF c = country THEN AlignSeries(s, df.index)
                                  ELSE df.values[c]]]

\* df.index = df.index.tz_convert(tz): same instants, new zone
TzConvertIndex(df, tz) == [df EXCEPT !.tz = tz]

\* df.reindex(new_index) with new_index in time zone tz; the rows of df are
\* the domain of each of its columns
Reindex(df, new_index, tz) ==
    [tz |-> tz, index |-> new_index, columns |-> df.columns,
     values |-> [c \in Range(df.columns) |->
                   [t \in Range(new_index) |->
                      IF t \in DOMAIN df.values[c] THEN df.values[c][t] ELSE NaN]]]

(* ------------------------ upstream provider ---------------------------- *)
\* time zone of the series query_day_ahead_prices returns for a bidding zone
AreaTz(country) == <<"area", country>>

\* the timestamps of an upstream series of a given shape: the whole grid, its
\* first half only, or the grid and the closing instant end_ts
ShapeIndex(shape, day, res) ==
    LET grid == expected_index(day, res) IN
    CASE shape = "full" -> grid
      [] shape = "head" -> SubSeq(grid, 1, Len(grid) \div 2)
      [] shape = "incl_end" -> Append(grid, end_ts(day))

\* prices alternate between the two values of the profile
ProfileValue(profile, t, res) ==
    IF (t \div FreqStep(res)) % 2 = 0 THEN Num(profile[1]) ELSE Num(profile[2])

MakeSeries(country, day, res, shape, profile) ==
    LET idx == ShapeIndex(shape, day, res) IN
    [tz |-> AreaTz(country), index |-> idx,
     values |-> [t \in Range(idx) |-> ProfileValue(profile, t, res)]]

\* what one call of client_local.query_day_ahead_prices can do: raise, return
\* None, return a series without entries, or return the series named by choice
Outcomes(details, choices) ==
    {[kind |-> "raise", detail |-> d, choice |-> <<>>] : d \in details}
    \cup {[kind |-> "none", detail |-> "", choice |-> <<>>],
          [kind |-> "empty", detail |-> "", choice |-> <<>>]}
    \cup {[kind |-> "series", detail |-> "", choice |-> sp] : sp \in choices}

\* the series a call returned (None is modelled by the kind alone)
SeriesOf(country, day, res, o) ==
    IF o.kind = "series"
    THEN MakeSeries(country, day, res, o.choice[1], o.choice[2])
    ELSE EmptySeries

(* --------------------------- status messages --------------------------- *)
Msg(cls, country, detail) == [cls |-> cls, country |-> country, detail |-> detail]

\* mutant: the error message leaves out the exception
OutcomeMsgNoDetail(country, o, price_series) ==
    IF o.kind = "raise" THEN Msg("error", country, "")
    ELSE IF o.kind = "none" \/ Len(price_series.index) = 0
    THEN Msg("warning", country, "")
    ELSE Msg("success", country, "")

\* the outcome message of one iteration: line 102 for an exception, line 95
\* for None or an empty series, line 99 otherwise
OutcomeMsg(country, o, price_series) ==
    IF o.kind = "raise" THEN Msg("error", country, o.detail)
    ELSE IF o.kind = "none" \/ Len(price_series.index) = 0
    THEN Msg("warning", country, "")
    ELSE Msg("success", country, "")

\* mutant: the failure is not recorded
RecordFailureNever(failed_list, country) == failed_list

\* failed_countries_list.append(country), lines 96 and 103
RecordFailure(failed_list, country) == Append(failed_list, country)

(* ------------------------------ the cache ------------------------------ *)
\* mutant: the resolution is left out of the key
CacheKeyNoResolution(args) ==
    <<args.day, args.countries, args.api_token, args.cache_buster>>

\* st.cache_data keys an entry by the function's arguments
CacheKey(args) ==
    <<args.day, args.countries, args.api_token, args.resolution,
      args.cache_buster>>

\* an entry lives ttl seconds from the moment it was stored
Fresh(entry, t) == t - entry.stored_at < TTL

\* clock step of the model: half a freshness window
TickSeconds == TTL \div 2

(* --------------------- color-domain derivation ------------------------- *)
\* final_df.values: every cell of the table
Cells(df) == {df.values[c][t] : c \in Range(df.columns), t \in Range(df.index)}

\* ndarray.min(): NaN as soon as one cell is NaN
data_zmin(df) ==
    IF NaN \in Cells(df) THEN NaN ELSE Num(SetMin({x[1] : x \in Cells(df)}))

\* ndarray.max(): NaN as soon as one cell is NaN
data_zmax(df) ==
    IF NaN \in Cells(df) THEN NaN ELSE Num(SetMax({x[1] : x \in Cells(df)}))

\* comparisons of floats: False whenever an operand is NaN
Lt0(x) == IsNum(x) /\ x[1] < 0
Gt0(x) == IsNum(x) /\ x[1] > 0
Ge0(x) == IsNum(x) /\ x[1] >= 0
Le0(x) == IsNum(x) /\ x[1] <= 0

\* selected_colorscale_name.replace("_r", "") in diverging_scales_list; no
\* selectable name contains "_r"
is_diverging_scale(selected_colorscale_name) ==
    selected_colorscale_name \in Range(diverging_scales_list)

\* (plot_zmin, plot_zmid, plot_zmax) of lines 346-384
PlotDomain(selected_colorscale_name, df) ==
    LET zmin == data_zmin(df)
        zmax == data_zmax(df)
    IN  IF is_diverging_scale(selected_colorscale_name)
        THEN IF Lt0(zmin) /\ Gt0(zmax)
             THEN [zmin |-> Num(-Max2(Abs(zmin[1]), Abs(zmax[1]))),
                   zmid |-> Num(0),
                   zmax |-> Num(Max2(Abs(zmin[1]), Abs(zmax[1])))]
             ELSE IF Ge0(zmin)
             THEN [zmin |-> Num(0), zmid |-> None, zmax |-> zmax]
             ELSE IF Le0(zmax)
             THEN [zmin |-> zmin, zmid |-> None, zmax |-> Num(0)]
             ELSE [zmin |-> zmin, zmid |-> None, zmax |-> zmax]
        ELSE IF Ge0(zmin)
             THEN [zmin |-> Num(0), zmid |-> None, zmax |-> zmax]
             ELSE IF Le0(zmax)
             THEN [zmin |-> zmin, zmid |-> None, zmax |-> Num(0)]
             ELSE [zmin |-> zmin, zmid |-> None, zmax |-> zmax]

\* actual_colorscale_for_plotly of lines 298-323
ActualColorscale(selected_colorscale_name, reverse_colorscale) ==
    IF selected_colorscale_name = "Default"
    THEN IF reverse_colorscale
         THEN <<"#CC0000", "#E1EDDB", "#6AA84F">>
         ELSE <<"#6AA84F", "#E1EDDB", "#CC0000">>
    ELSE IF reverse_colorscale
         THEN <<selected_colorscale_name, "_r">>
         ELSE <<selected_colorscale_name>>

(* ------------------------------- state --------------------------------- *)
VARIABLES
    pc,                 \* position of the script run
    token,              \* st.secrets["entsoe_token"]: <<t>>, or <<>> if absent
    cache_buster,       \* st.session_state.cache_buster: <<n>>, or <<>> if unset
    cache,              \* entries of st.cache_data for get_entsoe_data
    now,                \* seconds on the server's clock
    runs,               \* script runs started in this process
    selected_day_input, selected_resolution_entsoe_code, selected_countries,
    final_df_cached, failed_countries_list, status_messages, i,
    final_df, failed_countries, messages_from_fetch,
    status,             \* the st.status box
    rendered,           \* elements sent to the page, in order
    heatmap_fig,        \* <<figure>> once the heatmap is drawn
    queries,            \* upstream calls of the current run, with what they did
    calls               \* calls of get_entsoe_data in this process

vars == <<pc, token, cache_buster, cache, now, runs, selected_day_input,
          selected_resolution_entsoe_code, selected_countries, final_df_cached,
          failed_countries_list, status_messages, i, final_df, failed_countries,
          messages_from_fetch, status, rendered, heatmap_fig, queries, calls>>

inputVars == <<selected_day_input, selected_resolution_entsoe_code,
               selected_countries>>
localVars == <<final_df_cached, failed_countries_list, status_messages, i>>
resultVars == <<final_df, failed_countries, messages_from_fetch>>
processVars == <<token, cache, now, runs, calls>>

NoStatus == [label |-> "", state |-> "", expanded |-> FALSE, written |-> <<>>]

\* the script's variables before its first statement
FreshRun ==
    /\ pc = "start"
    /\ selected_day_input = <<>>
    /\ selected_resolution_entsoe_code = "PT60M"
    /\ selected_countries = <<>>
    /\ final_df_cached = EmptyFrame
    /\ failed_countries_list = <<>>
    /\ status_messages = <<>>
    /\ i = 1
    /\ final_df = EmptyFrame
    /\ failed_countries = <<>>
    /\ messages_from_fetch = <<>>
    /\ status = NoStatus
    /\ rendered = <<>>
    /\ heatmap_fig = <<>>
    /\ queries = <<>>

Init ==
    /\ FreshRun
    /\ token \in {<<"secret">>, <<>>}
    /\ cache_buster = <<>>
    /\ cache = {}
    /\ now = 0
    /\ runs = 1
    /\ calls = <<>>

(* ------------------------------ inputs --------------------------------- *)
\* what st.multiselect can return: the chosen options, each once, in the
\* order they were chosen
Selections(pool) ==
    {sel \in UNION {[1..n -> pool] : n \in 0..MaxSel} :
        \A a, b \in DOMAIN sel : a # b => sel[a] # sel[b]}

\* the resolutions the sidebar offers for a day (lines 130-147)
ResolutionsOffered(day) ==
    IF DateGE(day, RESOLUTION_CHANGE_DATE) THEN {"PT60M", "PT15M"} ELSE {"PT60M"}

(* ------------------------------ actions -------------------------------- *)
\* lines 30-47: the page header
Header ==
    /\ pc = "start"
    /\ rendered' = Append(rendered, "title")
    /\ pc' = "token"
    /\ UNCHANGED <<processVars, cache_buster, inputVars, localVars, resultVars,
                   status, heatmap_fig, queries>>

\* lines 52-61: the token, st.stop() without it, then the session counter
TokenCheck ==
    /\ pc = "token"
    /\ IF token = <<>>
       THEN /\ rendered' = Append(rendered, "token_error")
            /\ pc' = "stopped"
            /\ UNCHANGED cache_buster
       ELSE /\ cache_buster' = IF cache_buster = <<>> THEN Num(0) ELSE cache_buster
            /\ pc' = "sidebar"
            /\ UNCHANGED rendered
    /\ UNCHANGED <<processVars, inputVars, localVars, resultVars, status,
                   heatmap_fig, queries>>

\* mutant: the empty selection goes unnoticed
NoCountrySelectedNever(sel) == FALSE

\* not selected_countries, line 157
NoCountrySelected(sel) == sel = <<>>

\* lines 116-159: the sidebar widgets, st.stop() on an empty selection
Sidebar(days, pool) ==
    /\ pc = "sidebar"
    /\ \E day \in days, sel \in Selections(pool) :
         \E res \in ResolutionsOffered(day) :
            /\ selected_day_input' = day
            /\ selected_resolution_entsoe_code' = res
            /\ selected_countries' = sel
            /\ IF NoCountrySelected(sel)
               THEN /\ rendered' = rendered \o <<"sidebar", "select_country_info">>
                    /\ pc' = "stopped"
               ELSE /\ rendered' = Append(rendered, "sidebar")
                    /\ pc' = "call"
    /\ UNCHANGED <<processVars, cache_buster, localVars, resultVars, status,
                   heatmap_fig, queries>>

\* the arguments of the call of lines 182-188
CallArgs ==
    [day |-> selected_day_input, countries |-> selected_countries,
     api_token |-> token[1], resolution |-> selected_resolution_entsoe_code,
     cache_buster |-> cache_buster[1]]

\* lines 180-188 with the decorator of line 64: the status box opens and
\* get_entsoe_data is called; a fresh entry of the cache is returned as it is,
\* otherwise the body starts (lines 70-82)
CallGetData ==
    /\ pc = "call"
    /\ rendered' = Append(rendered, "status_box")
    /\ status' = [NoStatus EXCEPT !.label = "loading", !.state = "running"]
    /\ LET key == CacheKey(CallArgs)
           hits == {e \in cache : e.key = key /\ Fresh(e, now)}
       IN  IF hits # {}
           THEN /\ \E e \in hits :
                     /\ final_df' = e.value.df
                     /\ failed_countries' = e.value.failed
                     /\ messages_from_fetch' = e.value.messages
                     /\ calls' = Append(calls, [args |-> CallArgs, at |-> now,
                                               hit |-> TRUE, value |-> e.value,
                                               queried |-> <<>>])
                /\ pc' = "status"
                /\ UNCHANGED <<localVars>>
           ELSE /\ final_df_cached' = EmptyFrame
                /\ failed_countries_list' = <<>>
                /\ status_messages' = <<>>
                /\ i' = 1
                /\ pc' = "loop"
                /\ UNCHANGED <<resultVars, calls>>
    /\ UNCHANGED <<token, cache, now, runs, cache_buster, inputVars,
                   heatmap_fig, queries>>

\* mutant: an exception ends the loop
NextIndexAbort(k, o) ==
    IF o.kind = "raise" THEN Len(selected_countries) + 1 ELSE k + 1

\* the for statement of line 84 takes the next country whatever the body did:
\* the except clause of line 101 catches what the body raises
NextIndex(k, o) == k + 1

\* lines 84-103: one iteration of the loop over selected_countries
FetchRegion(details, choices) ==
    /\ pc = "loop"
    /\ i <= Len(selected_countries)
    /\ \E o \in Outcomes(details, choices) :
          LET country == selected_countries[i]
              price_series == SeriesOf(country, selected_day_input,
                                       selected_resolution_entsoe_code, o)
              fetching == Append(status_messages, Msg("fetching", country, ""))
          IN
          /\ queries' = Append(queries, [country |-> country, outcome |-> o])
          /\ status_messages' =
                Append(fetching, OutcomeMsg(country, o, price_series))
          /\ IF o.kind = "raise"
             THEN /\ failed_countries_list' =
                        RecordFailure(failed_countries_list, country)
                  /\ UNCHANGED final_df_cached
             ELSE IF o.kind = "none" \/ Len(price_series.index) = 0
             THEN /\ failed_countries_list' =
                        RecordFailure(failed_countries_list, country)
                  /\ UNCHANGED final_df_cached
             ELSE /\ final_df_cached' = SetColumn(final_df_cached, country, price_series)
                  /\ UNCHANGED failed_countries_list
          /\ i' = NextIndex(i, o)
    /\ UNCHANGED <<processVars, cache_buster, inputVars, resultVars, pc, status,
                   rendered, heatmap_fig>>

\* mutant: the table is returned as the loop left it
NormalizedNoReindex(df, day, res) == df

\* lines 105-110: the table on the expected grid, if it has any cell
Normalized(df, day, res) ==
    IF ~IsEmpty(df)
    THEN Reindex(TzConvertIndex(df, BRUSSELS), expected_index(day, res), BRUSSELS)
    ELSE df

\* lines 105-113 after the loop: normalize, return; st.cache_data stores what
\* is returned and the caller unpacks it (line 182)
NormalizeAndReturn ==
    /\ pc = "loop"
    /\ i > Len(selected_countries)
    /\ LET key == CacheKey(CallArgs)
           value == [df |-> Normalized(final_df_cached, selected_day_input,
                                       selected_resolution_entsoe_code),
                     failed |-> failed_countries_list,
                     messages |-> status_messages]
       IN  /\ cache' = {e \in cache : e.key # key}
                          \cup {[key |-> key, value |-> value, stored_at |-> now]}
           /\ calls' = Append(calls, [args |-> CallArgs, at |-> now, hit |-> FALSE,
                                     value |-> value,
                                     queried |-> [k \in DOMAIN queries |->
                                                    queries[k].country]])
           /\ final_df' = value.df
           /\ failed_countries' = value.failed
           /\ messages_from_fetch' = value.messages
    /\ final_df_cached' = EmptyFrame
    /\ failed_countries_list' = <<>>
    /\ status_messages' = <<>>
    /\ i' = 1
    /\ pc' = "status"
    /\ UNCHANGED <<token, now, runs, cache_buster, inputVars, status, rendered,
                   heatmap_fig, queries>>

\* mutant: the label never reports a failure
FinalStatusAlwaysComplete(failed, messages) ==
    [label |-> "completed", state |-> "complete", expanded |-> FALSE,
     written |-> messages]

\* lines 190-198: every message is written, then the label tells whether a
\* country failed
FinalStatus(failed, messages) ==
    IF failed # <<>>
    THEN [label |-> "completed_with_issues", state |-> "error",
          expanded |-> TRUE, written |-> messages]
    ELSE [label |-> "completed", state |-> "complete",
          expanded |-> FALSE, written |-> messages]

\* lines 190-198: the messages and the final label of the status box
ShowStatus ==
    /\ pc = "status"
    /\ status' = FinalStatus(failed_countries, messages_from_fetch)
    /\ pc' = "render"
    /\ UNCHANGED <<processVars, cache_buster, inputVars, localVars, resultVars,
                   rendered, heatmap_fig, queries>>

\* lines 201-273: the line chart of a table that has data
RenderLineChart ==
    /\ pc = "render"
    /\ ~IsEmpty(final_df)
    /\ rendered' = Append(rendered, "line_chart")
    /\ pc' = "heatmap"
    /\ UNCHANGED <<processVars, cache_buster, inputVars, localVars, resultVars,
                   status, heatmap_fig, queries>>

\* lines 466-470: the branch of a table without data
RenderNoData ==
    /\ pc = "render"
    /\ IsEmpty(final_df)
    /\ rendered' = IF failed_countries = <<>> /\ Len(selected_countries) > 0
                   THEN Append(rendered, "no_data_warning")
                   ELSE rendered
    /\ pc' = "done"
    /\ UNCHANGED <<processVars, cache_buster, inputVars, localVars, resultVars,
                   status, heatmap_fig, queries>>

\* lines 275-456: the heatmap behind its checkbox
RenderHeatmap(schemes) ==
    /\ pc = "heatmap"
    /\ \/ /\ UNCHANGED <<rendered, heatmap_fig>>
       \/ \E name \in schemes, reverse_colorscale \in BOOLEAN :
             /\ heatmap_fig' =
                   << [selected_colorscale_name |-> name,
                       reverse_colorscale |-> reverse_colorscale,
                       colorscale |-> ActualColorscale(name, reverse_colorscale),
                       domain |-> PlotDomain(name, final_df)] >>
             /\ rendered' = Append(rendered, "heatmap")
    /\ pc' = "table"
    /\ UNCHANGED <<processVars, cache_buster, inputVars, localVars, resultVars,
                   status, queries>>

\* lines 458-464: the data table behind its checkbox
RenderDataTable ==
    /\ pc = "table"
    /\ \E show_data_table \in BOOLEAN :
         rendered' = IF show_data_table THEN Append(rendered, "data_table")
                     ELSE rendered
    /\ pc' = "done"
    /\ UNCHANGED <<processVars, cache_buster, inputVars, localVars, resultVars,
                   status, heatmap_fig, queries>>

\* the script's variables before its first statement, as next state
ResetRun ==
    /\ pc' = "start"
    /\ selected_day_input' = <<>>
    /\ selected_resolution_entsoe_code' = "PT60M"
    /\ selected_countries' = <<>>
    /\ final_df_cached' = EmptyFrame
    /\ failed_countries_list' = <<>>
    /\ status_messages' = <<>>
    /\ i' = 1
    /\ final_df' = EmptyFrame
    /\ failed_countries' = <<>>
    /\ messages_from_fetch' = <<>>
    /\ status' = NoStatus
    /\ rendered' = <<>>
    /\ heatmap_fig' = <<>>
    /\ queries' = <<>>

Finished == pc \in {"done", "stopped"}

\* a widget interaction or a reload runs the script again, top to bottom, in
\* the same session
Rerun ==
    /\ Finished
    /\ runs < MaxRuns
    /\ runs' = runs + 1
    /\ ResetRun
    /\ UNCHANGED <<token, cache, now, calls, cache_buster>>

\* time passes between two runs
Tick ==
    /\ Finished
    /\ now < MaxTicks * TickSeconds
    /\ now' = now + TickSeconds
    /\ UNCHANGED <<pc, token, cache, runs, calls, cache_buster, inputVars,
                   localVars, resultVars, status, rendered, heatmap_fig, queries>>

\* the server process is started again: no cache, no session
Restart ==
    /\ Finished
    /\ ResetRun
    /\ cache_buster' = <<>>
    /\ cache' = {}
    /\ now' = 0
    /\ runs' = 1
    /\ calls' = <<>>
    /\ UNCHANGED token

(* --------------------------- specifications ---------------------------- *)
\* days of the date selector that are explored
Days == {<<2025, 3, 30>>, <<2025, 6, 1>>, <<2025, 10, 26>>, <<2025, 11, 15>>}
Pool(n) == {all_countries[k] : k \in 1..n}
ErrorDetails == {"503 Service Unavailable"}
\* upstream series explored: <<shape, <<price, price>>>>
SeriesChoices ==
    { <<"full", <<-3, 1>>>>, <<"full", <<1, 2>>>>, <<"full", <<-2, -1>>>>,
      <<"head", <<-2, -1>>>>, <<"incl_end", <<1, 2>>>> }

\* one run of the page in a new process, over rich inputs
Next ==
    \/ Header
    \/ TokenCheck
    \/ Sidebar(Days, Pool(3))
    \/ CallGetData
    \/ FetchRegion(ErrorDetails, SeriesChoices)
    \/ NormalizeAndReturn
    \/ ShowStatus
    \/ RenderLineChart
    \/ RenderNoData
    \/ RenderHeatmap({"Default", "Viridis"})
    \/ RenderDataTable
    \/ Restart

Spec == Init /\ [][Next]_vars

\* several runs of the page in one process as time passes, over few inputs
NextCache ==
    \/ Header
    \/ TokenCheck
    \/ Sidebar({<<2025, 11, 15>>}, Pool(1))
    \/ CallGetData
    \/ FetchRegion(ErrorDetails, {<<"full", <<1, 2>>>>})
    \/ NormalizeAndReturn
    \/ ShowStatus
    \/ RenderLineChart
    \/ RenderNoData
    \/ RenderHeatmap({"Default"})
    \/ RenderDataTable
    \/ Rerun
    \/ Tick

SpecCache == Init /\ [][NextCache]_vars

\* upstream series explored for the heatmap: all signs of the smallest and
\* the largest price, and a series with a gap
ColorChoices ==
    { <<"full", <<-3, 1>>>>, <<"full", <<-1, 2>>>>, <<"full", <<1, 2>>>>,
      <<"full", <<-2, -1>>>>, <<"full", <<0, 0>>>>, <<"full", <<0, 2>>>>,
      <<"full", <<-2, 0>>>>, <<"head", <<1, 2>>>> }

\* one run of the page in a new process, over every color scheme
NextColor ==
    \/ Header
    \/ TokenCheck
    \/ Sidebar({<<2025, 6, 1>>}, Pool(2))
    \/ CallGetData
    \/ FetchRegion(ErrorDetails, ColorChoices)
    \/ NormalizeAndReturn
    \/ ShowStatus
    \/ RenderLineChart
    \/ RenderNoData
    \/ RenderHeatmap(Range(colorscale_options))
    \/ RenderDataTable
    \/ Restart

SpecColor == Init /\ [][NextColor]_vars

(* ============================== claims ================================= *)
\* get_entsoe_data has returned to the script
Returned == pc \in {"status", "render", "heatmap", "table", "done"}

\* the run executed the body of get_entsoe_data (no cache hit)
BodyRan == Returned /\ calls # <<>> /\ ~calls[Len(calls)].hit

\* what upstream did for the k-th query of the run
UpstreamFailed(k) == queries[k].outcome.kind \in {"raise", "none", "empty"}
UpstreamSeries(k) ==
    MakeSeries(queries[k].country, selected_day_input,
               selected_resolution_entsoe_code,
               queries[k].outcome.choice[1], queries[k].outcome.choice[2])

Occurrences(seq, x) == Cardinality({k \in DOMAIN seq : seq[k] = x})

\* rows of the grid of a day, written out: one per hour or quarter-hour of
\* the local day, which has 23 or 25 hours when the clocks change
GridRows(day, res) ==
    CASE day \in SpringForwardDays -> IF res = "PT60M" THEN 23 ELSE 92
      [] day \in FallBackDays -> IF res = "PT60M" THEN 25 ELSE 100
      [] OTHER -> IF res = "PT60M" THEN 24 ELSE 96

IsGrid(index, day, res) ==
    /\ Len(index) = GridRows(day, res)
    /\ \A k \in DOMAIN index :
          index[k] = (k - 1) * (IF res = "PT60M" THEN 4 ELSE 1)

\* C1 as stated: whatever the regions did, the row index of the returned
\* table is the grid of the day, 24 rows for hourly and 96 for 15-minute data
C1_GridAlways ==
    BodyRan =>
        /\ final_df.index = expected_index(selected_day_input,
                                           selected_resolution_entsoe_code)
        /\ Len(final_df.index) =
              IF selected_resolution_entsoe_code = "PT60M" THEN 24 ELSE 96

\* C1 amended: if a region succeeded the row index of the returned table is
\* the grid of the day whatever the other regions did (24 or 96 rows on a day
\* of 24 hours, 23 or 92 and 25 or 100 on the days the clocks change); if no
\* region succeeded the table has no row and no column
C1_GridWhenSomeSucceeded ==
    BodyRan =>
        IF \E k \in DOMAIN queries : ~UpstreamFailed(k)
        THEN /\ IsGrid(final_df.index, selected_day_input,
                        selected_resolution_entsoe_code)
             /\ final_df.tz = BRUSSELS
        ELSE final_df = EmptyFrame

C1_Witness ==
    /\ BodyRan
    /\ selected_resolution_entsoe_code = "PT15M"
    /\ selected_day_input = <<2025, 11, 15>>
    /\ Len(final_df.index) = 96
    /\ \E k \in DOMAIN queries : UpstreamFailed(k)
    /\ \E k \in DOMAIN queries :
          /\ ~UpstreamFailed(k)
          /\ Len(UpstreamSeries(k).index) # 96

\* C2: once get_entsoe_data returns, a region whose call raised or gave no
\* data is no column and is in the failed list exactly once, any other
\* requested region is a column and is not in the failed list
C2_ColumnsAndFailedPartition ==
    BodyRan =>
        /\ \A k \in DOMAIN selected_countries :
              LET country == selected_countries[k] IN
              IF UpstreamFailed(k)
              THEN /\ country \notin Range(final_df.columns)
                   /\ Occurrences(failed_countries, country) = 1
              ELSE /\ Occurrences(final_df.columns, country) = 1
                   /\ country \notin Range(failed_countries)
        /\ Range(final_df.columns) \cup Range(failed_countries)
              = Range(selected_countries)

C2_Witness ==
    /\ BodyRan
    /\ Len(selected_countries) = 2
    /\ queries[1].outcome.kind = "raise"
    /\ queries[2].outcome.kind = "series"
    /\ final_df.columns = <<selected_countries[2]>>
    /\ failed_countries = <<selected_countries[1]>>

\* C6: every requested region is queried exactly once, in request order,
\* the regions after a failing one included
C6_EveryRegionQueriedInOrder ==
    /\ pc = "loop" =>
          [k \in DOMAIN queries |-> queries[k].country]
             = SubSeq(selected_countries, 1, i - 1)
    /\ BodyRan =>
          [k \in DOMAIN queries |-> queries[k].country] = selected_countries

C6_Witness ==
    /\ BodyRan
    /\ Len(selected_countries) = 2
    /\ queries[1].outcome.kind = "raise"
    /\ queries[2].country = selected_countries[2]

\* C9: the messages come in one group per requested region, in request
\* order: a fetching message, then one message of the class of what upstream
\* did, an error message carrying the error detail
C9_StatusTrail ==
    BodyRan =>
        /\ Len(messages_from_fetch) = 2 * Len(selected_countries)
        /\ \A k \in DOMAIN selected_countries :
              LET country == selected_countries[k]
                  o == queries[k].outcome
              IN  /\ messages_from_fetch[2 * k - 1] = Msg("fetching", country, "")
                  /\ messages_from_fetch[2 * k] =
                        CASE o.kind = "raise" -> Msg("error", country, o.detail)
                          [] o.kind \in {"none", "empty"} -> Msg("warning", country, "")
                          [] o.kind = "series" -> Msg("success", country, "")
        /\ pc \in {"render", "heatmap", "table", "done"} =>
              status.written = messages_from_fetch

C9_Witness ==
    /\ pc = "done"
    /\ Len(selected_countries) = 2
    /\ queries[1].outcome.kind = "raise"
    /\ queries[2].outcome.kind = "empty"
    /\ Len(status.written) = 4
    /\ status.written[2].cls = "error"
    /\ status.written[2].detail = "503 Service Unavailable"
    /\ status.written[4].cls = "warning"

Charts == {"line_chart", "heatmap", "data_table"}

NoDataWarningUnreachable == "no_data_warning" \notin Range(rendered)

\* the parts of C8 that do not depend on what is drawn before the halt
C8_Guards ==
    /\ pc \in {"call", "loop", "status", "render", "heatmap", "table", "done"} =>
          token # <<>> /\ selected_countries # <<>>
    /\ pc = "stopped" =>
          /\ queries = <<>>
          /\ Range(rendered) \cap Charts = {}
          /\ heatmap_fig = <<>>
          /\ IF token = <<>>
             THEN rendered[Len(rendered)] = "token_error"
             ELSE /\ selected_countries = <<>>
                  /\ rendered[Len(rendered)] = "select_country_info"

\* C8 as stated: without the token the run halts before anything is drawn
C8_HaltsBeforeAnyRendering ==
    /\ C8_Guards
    /\ (pc = "stopped" /\ token = <<>>) => rendered = <<"token_error">>

\* C8 amended: without the token the run halts after the page header, with
\* the configuration error as the only other element; fetch-and-normalize is
\* reached only with a token and a selection, and a halted run has issued no
\* query and drawn no chart or table
C8_HaltsAfterHeader ==
    /\ C8_Guards
    /\ (pc = "stopped" /\ token = <<>>) => rendered = <<"title", "token_error">>

C8_Witness ==
    /\ pc = "stopped"
    /\ token = <<>>
    /\ rendered = <<"title", "token_error">>

C8_WitnessNoRegion ==
    /\ pc = "stopped"
    /\ token # <<>>
    /\ selected_countries = <<>>
    /\ rendered[Len(rendered)] = "select_country_info"

\* C10 as stated: every cell of a successful region on the grid is what
\* upstream returned for it there, missing only where upstream returned
\* nothing, whatever the other regions returned; the rows are within the
\* grid and no timestamp is repeated
C10_NoUpstreamDataLost ==
    BodyRan =>
        /\ \A k \in DOMAIN queries :
              ~UpstreamFailed(k) =>
                 \A t \in Range(expected_index(selected_day_input,
                                               selected_resolution_entsoe_code)) :
                    final_df.values[queries[k].country][t] =
                       IF t \in Range(UpstreamSeries(k).index)
                       THEN UpstreamSeries(k).values[t]
                       ELSE NaN
        /\ Range(final_df.index) \subseteq
              Range(expected_index(selected_day_input,
                                   selected_resolution_entsoe_code))
        /\ \A a, b \in DOMAIN final_df.index :
              a # b => final_df.index[a] # final_df.index[b]

\* what does hold of the cells: the first successful region keeps all its
\* data, a later one keeps it only at the timestamps the first one has
C10_FirstRegionDecides ==
    BodyRan =>
        \A k \in DOMAIN queries :
           ~UpstreamFailed(k) =>
              LET first == CHOOSE j \in DOMAIN queries :
                              /\ ~UpstreamFailed(j)
                              /\ \A h \in 1..(j - 1) : UpstreamFailed(h)
              IN  \A t \in Range(final_df.index) :
                     final_df.values[queries[k].country][t] =
                        IF /\ t \in Range(UpstreamSeries(k).index)
                           /\ t \in Range(UpstreamSeries(first).index)
                        THEN UpstreamSeries(k).values[t]
                        ELSE NaN

C10_LossState ==
    /\ BodyRan
    /\ Len(selected_countries) = 2
    /\ queries[1].outcome.kind = "series" /\ queries[1].outcome.choice[1] = "head"
    /\ queries[2].outcome.kind = "series" /\ queries[2].outcome.choice[1] = "full"
    /\ \E t \in Range(final_df.index) :
          /\ final_df.values[selected_countries[2]][t] = NaN
          /\ UpstreamSeries(2).values[t] # NaN

\* the prices present in a table
Present(df) == {x[1] : x \in Cells(df) \ {NaN}}

\* the rule table of C5 for a scheme, a smallest price m and a largest M
RuleDomain(scheme, m, M) ==
    IF scheme \in {"Default", "Picnic", "PRGn", "RdBu", "balance", "Temps"}
    THEN CASE m < 0 /\ 0 < M ->
                [zmin |-> Num(-(IF Abs(m) > Abs(M) THEN Abs(m) ELSE Abs(M))),
                 zmid |-> Num(0),
                 zmax |-> Num(IF Abs(m) > Abs(M) THEN Abs(m) ELSE Abs(M))]
           [] m >= 0 -> [zmin |-> Num(0), zmid |-> None, zmax |-> Num(M)]
           [] OTHER -> [zmin |-> Num(m), zmid |-> None, zmax |-> Num(0)]
    ELSE CASE m >= 0 -> [zmin |-> Num(0), zmid |-> None, zmax |-> Num(M)]
           [] M <= 0 -> [zmin |-> Num(m), zmid |-> None, zmax |-> Num(0)]
           [] OTHER -> [zmin |-> Num(m), zmid |-> None, zmax |-> Num(M)]

\* C5: for every scheme and every table with smallest price m and largest
\* price M the color domain of the heatmap is the one of the rule table
C5_DomainFollowsRuleTable ==
    (heatmap_fig # <<>> /\ Present(final_df) # {}) =>
        heatmap_fig[1].domain =
           RuleDomain(heatmap_fig[1].selected_colorscale_name,
                      SetMin(Present(final_df)), SetMax(Present(final_df)))

\* what does hold: the rule table is followed by every table without a
\* missing cell
C5_DomainFollowsRuleTableWithoutGaps ==
    (heatmap_fig # <<>> /\ NaN \notin Cells(final_df)) =>
        heatmap_fig[1].domain =
           RuleDomain(heatmap_fig[1].selected_colorscale_name,
                      SetMin(Present(final_df)), SetMax(Present(final_df)))

\* a heatmap of a table with a missing cell: its domain is NaN
C5_GapState ==
    /\ heatmap_fig # <<>>
    /\ heatmap_fig[1].selected_colorscale_name = "RdBu"
    /\ Present(final_df) # {}
    /\ heatmap_fig[1].domain = [zmin |-> NaN, zmid |-> None, zmax |-> NaN]

\* two calls that differ at most in the cache-busting counter
OtherwiseEqual(a, b) ==
    /\ calls[a].args.day = calls[b].args.day
    /\ calls[a].args.countries = calls[b].args.countries
    /\ calls[a].args.api_token = calls[b].args.api_token
    /\ calls[a].args.resolution = calls[b].args.resolution

\* a call whose counter differs from that of every earlier call with
\* otherwise equal inputs queries upstream once per region
NewCounterQueries(b) ==
    (\A a \in 1..(b - 1) :
        OtherwiseEqual(a, b) =>
           calls[a].args.cache_buster # calls[b].args.cache_buster)
    => calls[b].queried = calls[b].args.countries

C3_ExpiredAfterHitState ==
    /\ Len(calls) = 3
    /\ calls[1].args = calls[2].args /\ calls[2].args = calls[3].args
    /\ calls[2].hit
    /\ calls[3].at - calls[2].at < TTL
    /\ ~calls[3].hit

\* C4 as stated: the dashboard, once a run has drawn it, offers an action
\* that increments the cache-busting counter of the session
C4_RefreshOffered ==
    (pc = "done" /\ cache_buster # <<>>) =>
        ENABLED (NextCache /\ cache_buster' = Num(cache_buster[1] + 1))

\* what does hold: the counter is set to 0 by the first run of the session
\* that has a token and never changes afterwards
C4_CounterStaysZero ==
    /\ cache_buster \in {<<>>, Num(0)}
    /\ \A b \in DOMAIN calls : calls[b].args.cache_buster = 0

\* zmin and zmax of a domain are numbers, zmin <= zmax, and every price
\* present in the table lies between them
Covers(domain, df) ==
    /\ IsNum(domain.zmin) /\ IsNum(domain.zmax)
    /\ domain.zmin[1] <= domain.zmax[1]
    /\ \A v \in Present(df) : domain.zmin[1] <= v /\ v <= domain.zmax[1]

\* C11 as stated: for every scheme and every non-empty table, tables with
\* missing cells included, the color domain of the heatmap has numbers for
\* zmin and zmax, zmin <= zmax, and zmin <= v <= zmax for every price v
\* present in the table
C11_DomainWellFormed ==
    heatmap_fig # <<>> => Covers(heatmap_fig[1].domain, final_df)

\* what does hold: the domain is well-formed and covers the prices of every
\* table without a missing cell
C11_DomainWellFormedWithoutGaps ==
    (heatmap_fig # <<>> /\ NaN \notin Cells(final_df)) =>
        Covers(heatmap_fig[1].domain, final_df)

\* a table without a missing cell and with prices on both sides of zero,
\* drawn with a sequential scheme
C11_NoGapState ==
    /\ heatmap_fig # <<>>
    /\ heatmap_fig[1].selected_colorscale_name = "Viridis"
    /\ NaN \notin Cells(final_df)
    /\ \E v \in Present(final_df) : v < 0
    /\ \E v \in Present(final_df) : v > 0

\* a table with prices and with a missing cell, drawn with a sequential
\* scheme: neither zmin nor zmax is a number
C11_GapState ==
    /\ heatmap_fig # <<>>
    /\ heatmap_fig[1].selected_colorscale_name = "Viridis"
    /\ Present(final_df) # {}
    /\ NaN \in Cells(final_df)
    /\ ~IsNum(heatmap_fig[1].domain.zmin)
    /\ ~IsNum(heatmap_fig[1].domain.zmax)

====
